---- MODULE Spec2Model ----
(***************************************************************************)
(* Fire-Alarm-System-Computer-Vision: FireDetection/app.py and db.py.      *)
(*                                                                         *)
(* The processes of the program:                                           *)
(*   - the capture thread      capture_frames()         (one, daemon)      *)
(*   - the /video consumers    generate()               (one per request)  *)
(*   - the /start and /stop request handlers (Flask runs threaded=True, so *)
(*     handlers run concurrently with each other and with the above)       *)
(*   - the /detections subscriber  event_stream()                          *)
(* Every step below is one access to shared state (a global, a queue, a    *)
(* table), with the thread-local computation that follows it.              *)
(***************************************************************************)
EXTENDS Integers, Sequences, FiniteSets, TLC

\* ---------------------------------------------------------------- bounds
\* Frames the camera delivers in one run of the model.
MaxFrames == 3
\* /start requests in one run (each creates one session row).
MaxSessions == 2
\* /stop requests in one run.
MaxStops == 2
\* Boxes the detector returns for one frame, at most.
MaxBoxes == 2

\* ------------------------------------------------------ program constants
\* frame_queue = queue.Queue(maxsize=2)
FrameQueueMax == 2
\* detection_queue = queue.Queue(maxsize=10)
DetectionQueueMax == 10
\* if consecutive_failures > 10: break
FailureThreshold == 10
\* classes = ["fire", "light", "no-fire", "smoke"]
ClsFire == 0
ClsLight == 1
ClsNoFire == 2
ClsSmoke == 3

\* The threads: /video consumers and request handlers.
Consumers == {"g1", "g2"}
Handlers == {"h1", "h2"}

\* current_session_id = None
None == 0

VARIABLES
    \* ---- globals of app.py
    capturing,             \* capturing flag
    current_session_id,    \* None or a session id
    current_detections,    \* [fire, smoke] (the snapshot)
    frame_queue,           \* queue.Queue(maxsize=2) of frames (frame numbers)
    detection_queue,       \* queue.Queue(maxsize=10) of snapshots
    \* ---- tables of db.py
    sessions,              \* detection_sessions, row id = index
    logs,                  \* detection_logs, in insertion order
    clock,                 \* datetime.now(), as a logical clock
    \* ---- capture_frames
    cpc,                   \* where the capture thread is
    cap,                   \* the VideoCapture bound to `cap`
    consecutive_failures,
    cframe,                \* the frame just read
    frames_read,           \* frames the camera has delivered so far
    \* ---- generate, per consumer
    gpc, gframe, fire_count, smoke_count,
    \* ---- /start and /stop, per handler thread
    hpc, hsid, htotal, hresp,
    nstarts, nstops,
    \* ---- event_stream (the /detections subscriber)
    epc,
    equiet,                \* the last pass of its loop sent nothing
    \* ---- history (not program state): what the claims speak about
    last_removed,          \* newest frame that has left frame_queue
    puts_since_get,        \* frames inserted since the last consumer get
    fail_run,              \* failed reads since the last good read / open
    broke,                 \* the inner loop was left by `break`
    gboxes,                \* classes the detector returned to the consumer
    gprev,                 \* what the comparison of line 144 read in current_detections
    gsawfull,              \* line 157 found detection_queue full
    gputs,                 \* events the consumer's iteration has put
    glogged,               \* log rows the consumer's iteration has inserted
    logged_into,           \* per log row: its session's status then, its boxes
    closes                 \* the end_session calls made: who, for which id

globalVars == <<capturing, current_session_id, current_detections>>
queueVars == <<frame_queue, detection_queue>>
dbVars == <<sessions, logs, clock>>
capVars == <<cpc, cap, consecutive_failures, cframe, frames_read>>
genVars == <<gpc, gframe, fire_count, smoke_count>>
reqVars == <<hpc, hsid, htotal, hresp, nstarts, nstops>>
capHist == <<last_removed, puts_since_get, fail_run, broke>>
genHist == <<gboxes, gprev, gsawfull, gputs, glogged, logged_into>>
reqHist == <<closes>>
subVars == <<epc, equiet>>

vars == <<globalVars, queueVars, dbVars, capVars, genVars, reqVars, subVars,
          capHist, genHist, reqHist>>

\* ---------------------------------------------------------------- helpers
Max(a, b) == IF a >= b THEN a ELSE b
Min(a, b) == IF a <= b THEN a ELSE b

Snapshot(f, s) == [fire |-> f, smoke |-> s]

\* queue.Queue.full() / empty()
Full(q, maxsize) == Len(q) >= maxsize
Empty(q) == Len(q) = 0

\* ------------------------------------------------------------------- Init
\* The module's globals as lines 18-32 of app.py set them, the tables as
\* db.init_db() leaves a fresh database, every thread at its first line.
Init ==
    /\ capturing = FALSE
    /\ current_session_id = None
    /\ current_detections = Snapshot(0, 0)
    /\ frame_queue = <<>>
    /\ detection_queue = <<>>
    /\ sessions = <<>>
    /\ logs = <<>>
    /\ clock = 0
    /\ cpc = "outer"
    /\ cap = "none"
    /\ consecutive_failures = 0
    /\ cframe = 0
    /\ frames_read = 0
    /\ gpc = [g \in Consumers |-> "top"]
    /\ gframe = [g \in Consumers |-> 0]
    /\ fire_count = [g \in Consumers |-> 0]
    /\ smoke_count = [g \in Consumers |-> 0]
    /\ hpc = [h \in Handlers |-> "idle"]
    /\ hsid = [h \in Handlers |-> None]
    /\ htotal = [h \in Handlers |-> Snapshot(0, 0)]
    /\ hresp = [h \in Handlers |-> [op |-> "none", made |-> None, session_id |-> None]]
    /\ nstarts = 0
    /\ nstops = 0
    /\ last_removed = 0
    /\ puts_since_get = 0
    /\ fail_run = 0
    /\ broke = FALSE
    /\ gboxes = [g \in Consumers |-> <<>>]
    /\ gprev = [g \in Consumers |-> Snapshot(0, 0)]
    /\ gsawfull = [g \in Consumers |-> FALSE]
    /\ gputs = [g \in Consumers |-> 0]
    /\ glogged = [g \in Consumers |-> 0]
    /\ logged_into = <<>>
    /\ closes = <<>>
    /\ epc = "top"
    /\ equiet = FALSE

\* ------------------------------------------------------- capture_frames()
\* consecutive_failures += 1                                      (line 65)
ReadFailed(cf) == cf + 1

\* A good read that leaves the counter as it is.
ReadSucceededKeeps(cf) == cf

\* consecutive_failures = 0                                       (line 77)
ReadSucceeded(cf) == 0

\* if consecutive_failures > 10: break                            (line 69)
TooManyFailures(cf) == cf > FailureThreshold

\* A get that takes the newest item instead (a LIFO queue).
GetNowaitNewest(q) ==
    [item |-> q[Len(q)], rest |-> SubSeq(q, 1, Len(q) - 1)]

\* queue.Queue.get_nowait() on a non-empty queue: FIFO, the oldest item
\* leaves                                                         (line 82)
GetNowait(q) == [item |-> Head(q), rest |-> Tail(q)]

\* while not stop_event.is_set(): if not capturing: ... (lines 36-39).
\* stop_event is never set anywhere in the program.
CapOuter ==
    /\ cpc = "outer"
    /\ cpc' = IF capturing THEN "open" ELSE "idle"
    /\ UNCHANGED <<cap, consecutive_failures, cframe, frames_read>>
    /\ UNCHANGED <<globalVars, queueVars, dbVars, genVars, reqVars, subVars,
                   capHist, genHist, reqHist>>

\* time.sleep(0.1); continue                                   (lines 38-39)
CapIdle ==
    /\ cpc = "idle"
    /\ cpc' = "outer"
    /\ UNCHANGED <<cap, consecutive_failures, cframe, frames_read>>
    /\ UNCHANGED <<globalVars, queueVars, dbVars, genVars, reqVars, subVars,
                   capHist, genHist, reqHist>>

\* cap = cv2.VideoCapture(...); if not cap.isOpened(): sleep(2); continue;
\* consecutive_failures = 0                                    (lines 43-59)
\* Rebinding `cap` drops the VideoCapture it held before.
CapOpen ==
    /\ cpc = "open"
    /\ \E opened \in BOOLEAN :
          IF opened
          THEN /\ cap' = "open"
               /\ consecutive_failures' = 0
               /\ fail_run' = 0
               /\ broke' = FALSE
               /\ cpc' = "inner"
          ELSE /\ cap' = "failed"
               /\ cpc' = "outer"
               /\ UNCHANGED <<consecutive_failures, fail_run, broke>>
    /\ UNCHANGED <<cframe, frames_read, last_removed, puts_since_get>>
    /\ UNCHANGED <<globalVars, queueVars, dbVars, genVars, reqVars, subVars,
                   genHist, reqHist>>

\* while not stop_event.is_set() and capturing:                   (line 61)
CapLoop ==
    /\ cpc = "inner"
    /\ cpc' = IF capturing THEN "read" ELSE "release"
    /\ UNCHANGED <<cap, consecutive_failures, cframe, frames_read>>
    /\ UNCHANGED <<globalVars, queueVars, dbVars, genVars, reqVars, subVars,
                   capHist, genHist, reqHist>>

\* ret, frame = cap.read(), a good frame: reset the counter    (lines 62-77)
CapReadOk(maxFrames) ==
    /\ cpc = "read"
    /\ frames_read < maxFrames
    /\ frames_read' = frames_read + 1
    /\ cframe' = frames_read + 1
    /\ consecutive_failures' = ReadSucceeded(consecutive_failures)
    /\ fail_run' = 0
    /\ cpc' = "full"
    /\ UNCHANGED <<cap, last_removed, puts_since_get, broke>>
    /\ UNCHANGED <<globalVars, queueVars, dbVars, genVars, reqVars, subVars,
                   genHist, reqHist>>

\* ret, frame = cap.read() with a frame, from a camera that never stops
\* delivering: frames are told apart modulo maxFrames        (lines 62-77)
CapReadOn(maxFrames) ==
    /\ cpc = "read"
    /\ frames_read' = Min(frames_read + 1, maxFrames)
    /\ cframe' = (cframe % maxFrames) + 1
    /\ consecutive_failures' = ReadSucceeded(consecutive_failures)
    /\ fail_run' = 0
    /\ cpc' = "full"
    /\ UNCHANGED <<cap, last_removed, puts_since_get, broke>>
    /\ UNCHANGED <<globalVars, queueVars, dbVars, genVars, reqVars, subVars,
                   genHist, reqHist>>

\* ret, frame = cap.read(), no frame: count, break or retry     (lines 62-74)
CapReadFail ==
    /\ cpc = "read"
    /\ consecutive_failures' = ReadFailed(consecutive_failures)
    /\ fail_run' = fail_run + 1
    /\ IF TooManyFailures(consecutive_failures')
       THEN cpc' = "release" /\ broke' = TRUE
       ELSE cpc' = "inner" /\ UNCHANGED broke
    /\ UNCHANGED <<cap, cframe, frames_read, last_removed, puts_since_get>>
    /\ UNCHANGED <<globalVars, queueVars, dbVars, genVars, reqVars, subVars,
                   genHist, reqHist>>

\* cap.read() raises: control leaves the try block for the handler of
\* line 91, past cap.release()                              (lines 62, 91)
CapReadRaise ==
    /\ cpc = "read"
    /\ cpc' = "except"
    /\ UNCHANGED <<cap, consecutive_failures, cframe, frames_read>>
    /\ UNCHANGED <<globalVars, queueVars, dbVars, genVars, reqVars, subVars,
                   capHist, genHist, reqHist>>

\* A producer that never evicts: it goes on to the put even when full.
CapFullNeverEvicts ==
    /\ cpc = "full"
    /\ cpc' = "put"
    /\ UNCHANGED <<cap, consecutive_failures, cframe, frames_read>>
    /\ UNCHANGED <<globalVars, queueVars, dbVars, genVars, reqVars, subVars,
                   capHist, genHist, reqHist>>

\* if frame_queue.full():                                         (line 80)
CapFull ==
    /\ cpc = "full"
    /\ cpc' = IF Full(frame_queue, FrameQueueMax) THEN "evict" ELSE "put"
    /\ UNCHANGED <<cap, consecutive_failures, cframe, frames_read>>
    /\ UNCHANGED <<globalVars, queueVars, dbVars, genVars, reqVars, subVars,
                   capHist, genHist, reqHist>>

\* try: frame_queue.get_nowait() except queue.Empty: pass      (lines 81-84)
CapEvict ==
    /\ cpc = "evict"
    /\ IF Empty(frame_queue)
       THEN UNCHANGED <<frame_queue, last_removed>>
       ELSE /\ frame_queue' = GetNowait(frame_queue).rest
            /\ last_removed' = Max(last_removed, GetNowait(frame_queue).item)
    /\ cpc' = "put"
    /\ UNCHANGED <<cap, consecutive_failures, cframe, frames_read>>
    /\ UNCHANGED <<detection_queue, puts_since_get, fail_run, broke>>
    /\ UNCHANGED <<globalVars, dbVars, genVars, reqVars, subVars, genHist, reqHist>>

\* frame_queue.put(frame): blocks while the queue is full; sleep(0.03)
\*                                                             (lines 86-87)
CapPut ==
    /\ cpc = "put"
    /\ ~Full(frame_queue, FrameQueueMax)
    /\ frame_queue' = Append(frame_queue, cframe)
    /\ puts_since_get' = Min(puts_since_get + 1, FrameQueueMax + 1)
    /\ cpc' = "inner"
    /\ UNCHANGED <<cap, consecutive_failures, cframe, frames_read>>
    /\ UNCHANGED <<detection_queue, last_removed, fail_run, broke>>
    /\ UNCHANGED <<globalVars, dbVars, genVars, reqVars, subVars, genHist, reqHist>>

\* cap.release()                                                  (line 89)
CapRelease ==
    /\ cpc = "release"
    /\ cap' = "released"
    /\ cpc' = "outer"
    /\ UNCHANGED <<consecutive_failures, cframe, frames_read>>
    /\ UNCHANGED <<globalVars, queueVars, dbVars, genVars, reqVars, subVars,
                   capHist, genHist, reqHist>>

\* except Exception as e: print; time.sleep(2)                 (lines 91-93)
CapExcept ==
    /\ cpc = "except"
    /\ cpc' = "outer"
    /\ UNCHANGED <<cap, consecutive_failures, cframe, frames_read>>
    /\ UNCHANGED <<globalVars, queueVars, dbVars, genVars, reqVars, subVars,
                   capHist, genHist, reqHist>>


\* ------------------------------------------------------------- generate()
\* The classes the model can return for a box: classes has four entries.
Classes == {ClsFire, ClsLight, ClsNoFire, ClsSmoke}

\* results.boxes, as the sequence of the boxes' classes: up to n boxes.
BoxSeqs(n) == UNION {[1..k -> Classes] : k \in 0..n}

\* A loop body that skips only "no-fire" and counts "light" with "fire".
CountBoxCountsLight(acc, cls) ==
    IF cls = ClsNoFire
    THEN acc
    ELSE IF cls = ClsFire \/ cls = ClsLight
         THEN [acc EXCEPT !.fire = @ + 1]
         ELSE IF cls = ClsSmoke
              THEN [acc EXCEPT !.smoke = @ + 1]
              ELSE acc

\* One pass of the loop body over a box of class cls        (lines 116-126)
CountBox(acc, cls) ==
    IF cls = ClsNoFire \/ cls = ClsLight
    THEN acc
    ELSE IF cls = ClsFire
         THEN [acc EXCEPT !.fire = @ + 1]
         ELSE IF cls = ClsSmoke
              THEN [acc EXCEPT !.smoke = @ + 1]
              ELSE acc

\* fire_count = 0; smoke_count = 0; for box in results.boxes: ...
\*                                                           (lines 112-126)
RECURSIVE CountFrom(_, _, _)
CountFrom(boxes, i, acc) ==
    IF i > Len(boxes) THEN acc
    ELSE CountFrom(boxes, i + 1, CountBox(acc, boxes[i]))

CountBoxes(boxes) == CountFrom(boxes, 1, Snapshot(0, 0))

\* alert_triggered = fire_count > 0 or smoke_count > 0            (line 153)
AlertTriggered(f, s) == f > 0 \/ s > 0

\* The history of one pass of the loop, cleared.
NoPass(g) ==
    /\ gboxes' = [gboxes EXCEPT ![g] = <<>>]
    /\ gprev' = [gprev EXCEPT ![g] = Snapshot(0, 0)]
    /\ gsawfull' = [gsawfull EXCEPT ![g] = FALSE]
    /\ gputs' = [gputs EXCEPT ![g] = 0]
    /\ glogged' = [glogged EXCEPT ![g] = 0]

\* The locals of one pass: none is read again before it is assigned again.
DropLocals(g) ==
    /\ gframe' = [gframe EXCEPT ![g] = 0]
    /\ fire_count' = [fire_count EXCEPT ![g] = 0]
    /\ smoke_count' = [smoke_count EXCEPT ![g] = 0]

\* while True: if not capturing: time.sleep(0.1); continue    (lines 98-101)
GenTop(g) ==
    /\ gpc[g] = "top"
    /\ gpc' = [gpc EXCEPT ![g] = IF capturing THEN "get" ELSE "top"]
    /\ UNCHANGED <<gframe, fire_count, smoke_count>>
    /\ UNCHANGED <<globalVars, queueVars, dbVars, capVars, reqVars, subVars,
                   capHist, genHist, reqHist>>

\* frame = frame_queue.get(timeout=1) with a frame there; the detector
\* returns boxes; the loop counts them                       (lines 103-141)
GenGet(g, outputs) ==
    /\ gpc[g] = "get"
    /\ ~Empty(frame_queue)
    /\ frame_queue' = Tail(frame_queue)
    /\ gframe' = [gframe EXCEPT ![g] = Head(frame_queue)]
    /\ last_removed' = Max(last_removed, Head(frame_queue))
    /\ puts_since_get' = 0
    /\ \E boxes \in outputs :
          /\ gboxes' = [gboxes EXCEPT ![g] = boxes]
          /\ fire_count' = [fire_count EXCEPT ![g] = CountBoxes(boxes).fire]
          /\ smoke_count' = [smoke_count EXCEPT ![g] = CountBoxes(boxes).smoke]
    /\ gpc' = [gpc EXCEPT ![g] = "cmp_fire"]
    /\ UNCHANGED <<detection_queue, fail_run, broke>>
    /\ UNCHANGED <<gprev, gsawfull, gputs, glogged, logged_into>>
    /\ UNCHANGED <<globalVars, dbVars, capVars, reqVars, subVars, reqHist>>

\* frame = frame_queue.get(timeout=1) with a frame there, and the detector
\* raises: control goes to except Exception            (lines 103, 110, 167)
GenDetectRaise(g) ==
    /\ gpc[g] = "get"
    /\ ~Empty(frame_queue)
    /\ frame_queue' = Tail(frame_queue)
    /\ gframe' = [gframe EXCEPT ![g] = Head(frame_queue)]
    /\ last_removed' = Max(last_removed, Head(frame_queue))
    /\ puts_since_get' = 0
    /\ gpc' = [gpc EXCEPT ![g] = "except"]
    /\ UNCHANGED <<fire_count, smoke_count>>
    /\ UNCHANGED <<detection_queue, fail_run, broke>>
    /\ UNCHANGED <<globalVars, dbVars, capVars, reqVars, subVars, genHist, reqHist>>

\* A consumer that gives up at the first timeout.
GenGetTimeoutEnds(g) ==
    /\ gpc[g] = "get"
    /\ Empty(frame_queue)
    /\ gpc' = [gpc EXCEPT ![g] = "ended"]
    /\ UNCHANGED <<gframe, fire_count, smoke_count>>
    /\ UNCHANGED <<globalVars, queueVars, dbVars, capVars, reqVars, subVars,
                   capHist, genHist, reqHist>>

\* frame_queue.get(timeout=1) times out: except queue.Empty: continue
\*                                                      (lines 103, 164-166)
GenGetTimeout(g) ==
    /\ gpc[g] = "get"
    /\ Empty(frame_queue)
    /\ gpc' = [gpc EXCEPT ![g] = "top"]
    /\ UNCHANGED <<gframe, fire_count, smoke_count>>
    /\ UNCHANGED <<globalVars, queueVars, dbVars, capVars, reqVars, subVars,
                   capHist, genHist, reqHist>>


\* if fire_count != current_detections["fire"] or ...: the left operand;
\* the right one is not evaluated when this one is true           (line 144)
GenCmpFire(g) ==
    /\ gpc[g] = "cmp_fire"
    /\ gprev' = [gprev EXCEPT ![g].fire = current_detections.fire]
    /\ gpc' = [gpc EXCEPT ![g] =
                  IF fire_count[g] # current_detections.fire
                  THEN "update" ELSE "cmp_smoke"]
    /\ UNCHANGED <<gframe, fire_count, smoke_count>>
    /\ UNCHANGED <<gboxes, gsawfull, gputs, glogged, logged_into>>
    /\ UNCHANGED <<globalVars, queueVars, dbVars, capVars, reqVars, subVars,
                   capHist, reqHist>>

\* A comparison that looks at the fire count only.
GenCmpFireOnly(g) ==
    /\ gpc[g] = "cmp_smoke"
    /\ gprev' = [gprev EXCEPT ![g].smoke = current_detections.smoke]
    /\ gpc' = [gpc EXCEPT ![g] = "encode"]
    /\ UNCHANGED <<gframe, fire_count, smoke_count>>
    /\ UNCHANGED <<gboxes, gsawfull, gputs, glogged, logged_into>>
    /\ UNCHANGED <<globalVars, queueVars, dbVars, capVars, reqVars, subVars,
                   capHist, reqHist>>

\* ... or smoke_count != current_detections["smoke"]: the right operand, a
\* second read of the global                                      (line 144)
GenCmpSmoke(g) ==
    /\ gpc[g] = "cmp_smoke"
    /\ gprev' = [gprev EXCEPT ![g].smoke = current_detections.smoke]
    /\ gpc' = [gpc EXCEPT ![g] =
                  IF smoke_count[g] # current_detections.smoke
                  THEN "update" ELSE "encode"]
    /\ UNCHANGED <<gframe, fire_count, smoke_count>>
    /\ UNCHANGED <<gboxes, gsawfull, gputs, glogged, logged_into>>
    /\ UNCHANGED <<globalVars, queueVars, dbVars, capVars, reqVars, subVars,
                   capHist, reqHist>>

\* current_detections = {"fire": fire_count, "smoke": smoke_count, ...}
\*                                                           (lines 145-149)
GenUpdate(g) ==
    /\ gpc[g] = "update"
    /\ current_detections' = Snapshot(fire_count[g], smoke_count[g])
    /\ gpc' = [gpc EXCEPT ![g] = "check_sid"]
    /\ UNCHANGED <<capturing, current_session_id>>
    /\ UNCHANGED <<gframe, fire_count, smoke_count>>
    /\ UNCHANGED <<queueVars, dbVars, capVars, reqVars, subVars,
                   capHist, genHist, reqHist>>

\* A pass that logs every change, session or not.
GenAlwaysLogs(g) ==
    /\ gpc[g] = "check_sid"
    /\ gpc' = [gpc EXCEPT ![g] = "log"]
    /\ UNCHANGED <<gframe, fire_count, smoke_count>>
    /\ UNCHANGED <<globalVars, queueVars, dbVars, capVars, reqVars, subVars,
                   capHist, genHist, reqHist>>

\* if current_session_id:                                         (line 152)
GenCheckSid(g) ==
    /\ gpc[g] = "check_sid"
    /\ gpc' = [gpc EXCEPT ![g] =
                  IF current_session_id # None THEN "log" ELSE "check_full"]
    /\ UNCHANGED <<gframe, fire_count, smoke_count>>
    /\ UNCHANGED <<globalVars, queueVars, dbVars, capVars, reqVars, subVars,
                   capHist, genHist, reqHist>>

\* The status of session sid, "none" when there is no such row.
StatusOf(sid) ==
    IF sid \in 1..Len(sessions) THEN sessions[sid].status ELSE "none"

\* INSERT INTO detection_logs (session_id, fire_count, smoke_count,
\* alert_triggered): foreign keys are declared, never enforced
\*                                                   (db.py lines 114-125)
add_detection_log(session_id, f, s, alert) ==
    Append(logs, [session_id |-> session_id, fire_count |-> f,
                  smoke_count |-> s, alert_triggered |-> alert])

\* alert_triggered = ...; db.add_detection_log(current_session_id, ...):
\* the global is read again for the argument                 (lines 153-154)
GenLog(g) ==
    /\ gpc[g] = "log"
    /\ logs' = add_detection_log(current_session_id, fire_count[g],
                   smoke_count[g],
                   AlertTriggered(fire_count[g], smoke_count[g]))
    /\ logged_into' = Append(logged_into,
           [status |-> StatusOf(current_session_id), boxes |-> gboxes[g]])
    /\ glogged' = [glogged EXCEPT ![g] = @ + 1]
    /\ gpc' = [gpc EXCEPT ![g] = "check_full"]
    /\ UNCHANGED <<sessions, clock>>
    /\ UNCHANGED <<gframe, fire_count, smoke_count>>
    /\ UNCHANGED <<gboxes, gprev, gsawfull, gputs>>
    /\ UNCHANGED <<globalVars, queueVars, capVars, reqVars, subVars, capHist, reqHist>>

\* db.add_detection_log raises (sqlite3.OperationalError, the database is
\* locked by another writer): control goes to except Exception
\*                                                         (lines 154, 167)
GenLogRaise(g) ==
    /\ gpc[g] = "log"
    /\ gpc' = [gpc EXCEPT ![g] = "except"]
    /\ UNCHANGED <<gframe, fire_count, smoke_count>>
    /\ UNCHANGED <<globalVars, queueVars, dbVars, capVars, reqVars, subVars,
                   capHist, genHist, reqHist>>

\* except Exception as e: print(...); continue: the frame of this pass is
\* given up, the loop goes on with the next one            (lines 167-169)
GenExcept(g) ==
    /\ gpc[g] = "except"
    /\ gpc' = [gpc EXCEPT ![g] = "top"]
    /\ DropLocals(g)
    /\ NoPass(g)
    /\ UNCHANGED logged_into
    /\ UNCHANGED <<globalVars, queueVars, dbVars, capVars, reqVars, subVars,
                   capHist, reqHist>>

\* if not detection_queue.full():                                 (line 157)
GenCheckFull(g) ==
    /\ gpc[g] = "check_full"
    /\ IF ~Full(detection_queue, DetectionQueueMax)
       THEN /\ gpc' = [gpc EXCEPT ![g] = "put"]
            /\ UNCHANGED gsawfull
       ELSE /\ gpc' = [gpc EXCEPT ![g] = "encode"]
            /\ gsawfull' = [gsawfull EXCEPT ![g] = TRUE]
    /\ UNCHANGED <<gframe, fire_count, smoke_count>>
    /\ UNCHANGED <<gboxes, gprev, gputs, glogged, logged_into>>
    /\ UNCHANGED <<globalVars, queueVars, dbVars, capVars, reqVars, subVars,
                   capHist, reqHist>>

\* detection_queue.put(current_detections.copy()): a blocking put, of the
\* global as it is now                                            (line 158)
GenPut(g) ==
    /\ gpc[g] = "put"
    /\ ~Full(detection_queue, DetectionQueueMax)
    /\ detection_queue' = Append(detection_queue, current_detections)
    /\ gputs' = [gputs EXCEPT ![g] = @ + 1]
    /\ gpc' = [gpc EXCEPT ![g] = "encode"]
    /\ UNCHANGED frame_queue
    /\ UNCHANGED <<gframe, fire_count, smoke_count>>
    /\ UNCHANGED <<gboxes, gprev, gsawfull, glogged, logged_into>>
    /\ UNCHANGED <<globalVars, dbVars, capVars, reqVars, subVars, capHist, reqHist>>

\* _, buf = cv2.imencode(...); yield (...)                   (lines 161-162)
GenYield(g) ==
    /\ gpc[g] = "encode"
    /\ gpc' = [gpc EXCEPT ![g] = "top"]
    /\ DropLocals(g)
    /\ NoPass(g)
    /\ UNCHANGED logged_into
    /\ UNCHANGED <<globalVars, queueVars, dbVars, capVars, reqVars, subVars,
                   capHist, reqHist>>


\* ------------------------------------------------------------------ db.py
\* INSERT INTO detection_sessions (start_time, status) VALUES (now,
\* 'active'); the other columns take their defaults; end_time is NULL (0)
\*                                                     (db.py lines 68-81)
start_session(now) ==
    Append(sessions, [start_time |-> now, end_time |-> 0,
                      total_fire_detections |-> 0,
                      total_smoke_detections |-> 0, status |-> "active"])

\* SELECT SUM(fire_count), SUM(smoke_count) FROM detection_logs WHERE
\* session_id = ?; `or 0` for no rows. A NULL parameter matches no row
\*                                                     (db.py lines 89-99)
RECURSIVE SumLogs(_, _, _)
SumLogs(rows, session_id, i) ==
    IF i > Len(rows) THEN Snapshot(0, 0)
    ELSE LET rest == SumLogs(rows, session_id, i + 1)
         IN  IF session_id # None /\ rows[i].session_id = session_id
             THEN Snapshot(rest.fire + rows[i].fire_count,
                           rest.smoke + rows[i].smoke_count)
             ELSE rest

\* UPDATE detection_sessions SET end_time = now, total_fire_detections,
\* total_smoke_detections, status = 'completed' WHERE id = ?
\*                                                   (db.py lines 102-111)
end_session_update(session_id, now, total) ==
    [i \in 1..Len(sessions) |->
        IF i = session_id
        THEN [sessions[i] EXCEPT !.end_time = now,
                                 !.total_fire_detections = total.fire,
                                 !.total_smoke_detections = total.smoke,
                                 !.status = "completed"]
        ELSE sessions[i]]

\* ---------------------------------------------------------------- /start
\* A /start request arrives at an idle handler thread: capturing = True
\*                                                      (lines 209-212)
StartBegin(h) ==
    /\ hpc[h] = "idle"
    /\ nstarts < MaxSessions
    /\ nstarts' = nstarts + 1
    /\ capturing' = TRUE
    /\ hpc' = [hpc EXCEPT ![h] = "s_insert"]
    /\ hresp' = [hresp EXCEPT ![h] = [op |-> "none", made |-> None,
                                      session_id |-> None]]
    /\ UNCHANGED <<current_session_id, current_detections>>
    /\ UNCHANGED <<hsid, htotal, nstops>>
    /\ UNCHANGED <<queueVars, dbVars, capVars, genVars, subVars,
                   capHist, genHist, reqHist>>

\* db.start_session(): the row is inserted, its id comes back
\*                                        (line 215; db.py lines 68-81)
StartSession(h) ==
    /\ hpc[h] = "s_insert"
    /\ clock' = clock + 1
    /\ sessions' = start_session(clock')
    /\ hsid' = [hsid EXCEPT ![h] = Len(sessions')]
    /\ hpc' = [hpc EXCEPT ![h] = "s_assign"]
    /\ UNCHANGED <<logs, htotal, hresp, nstarts, nstops>>
    /\ UNCHANGED <<globalVars, queueVars, capVars, genVars, subVars,
                   capHist, genHist, reqHist>>

\* current_session_id = <the id returned>                        (line 215)
StartAssign(h) ==
    /\ hpc[h] = "s_assign"
    /\ current_session_id' = hsid[h]
    /\ hpc' = [hpc EXCEPT ![h] = "s_reset"]
    /\ UNCHANGED <<capturing, current_detections>>
    /\ UNCHANGED <<hsid, htotal, hresp, nstarts, nstops>>
    /\ UNCHANGED <<queueVars, dbVars, capVars, genVars, subVars,
                   capHist, genHist, reqHist>>

\* current_detections = {"fire": 0, "smoke": 0, ...}         (lines 218-222)
StartReset(h) ==
    /\ hpc[h] = "s_reset"
    /\ current_detections' = Snapshot(0, 0)
    /\ hpc' = [hpc EXCEPT ![h] = "s_clear"]
    /\ UNCHANGED <<capturing, current_session_id>>
    /\ UNCHANGED <<hsid, htotal, hresp, nstarts, nstops>>
    /\ UNCHANGED <<queueVars, dbVars, capVars, genVars, subVars,
                   capHist, genHist, reqHist>>

\* while not detection_queue.empty(): try: get_nowait() except Empty:
\* break -- one turn of the loop                              (lines 224-228)
StartClear(h) ==
    /\ hpc[h] = "s_clear"
    /\ IF Empty(detection_queue)
       THEN /\ hpc' = [hpc EXCEPT ![h] = "s_return"]
            /\ UNCHANGED detection_queue
       ELSE /\ detection_queue' = GetNowait(detection_queue).rest
            /\ UNCHANGED hpc
    /\ UNCHANGED frame_queue
    /\ UNCHANGED <<hsid, htotal, hresp, nstarts, nstops>>
    /\ UNCHANGED <<globalVars, dbVars, capVars, genVars, subVars,
                   capHist, genHist, reqHist>>

\* return jsonify({"status": "ok", "session_id": current_session_id}): the
\* global is read for the response                                (line 229)
StartReturn(h) ==
    /\ hpc[h] = "s_return"
    /\ hresp' = [hresp EXCEPT ![h] = [op |-> "start", made |-> hsid[h],
                                      session_id |-> current_session_id]]
    /\ hsid' = [hsid EXCEPT ![h] = None]
    /\ hpc' = [hpc EXCEPT ![h] = "idle"]
    /\ UNCHANGED <<htotal, nstarts, nstops>>
    /\ UNCHANGED <<globalVars, queueVars, dbVars, capVars, genVars, subVars,
                   capHist, genHist, reqHist>>

\* ----------------------------------------------------------------- /stop
\* A /stop request arrives at an idle handler thread: capturing = False
\*                                                      (lines 231-234)
StopBegin(h) ==
    /\ hpc[h] = "idle"
    /\ nstops < MaxStops
    /\ nstops' = nstops + 1
    /\ capturing' = FALSE
    /\ hpc' = [hpc EXCEPT ![h] = "t_check"]
    /\ hresp' = [hresp EXCEPT ![h] = [op |-> "none", made |-> None,
                                      session_id |-> None]]
    /\ UNCHANGED <<current_session_id, current_detections>>
    /\ UNCHANGED <<hsid, htotal, nstarts>>
    /\ UNCHANGED <<queueVars, dbVars, capVars, genVars, subVars,
                   capHist, genHist, reqHist>>

\* if current_session_id:                                         (line 237)
StopCheck(h) ==
    /\ hpc[h] = "t_check"
    /\ hpc' = [hpc EXCEPT ![h] =
                  IF current_session_id # None THEN "t_select" ELSE "t_reset"]
    /\ UNCHANGED <<hsid, htotal, hresp, nstarts, nstops>>
    /\ UNCHANGED <<globalVars, queueVars, dbVars, capVars, genVars, subVars,
                   capHist, genHist, reqHist>>

\* db.end_session(current_session_id): the global is read again for the
\* argument; end_session's SELECT sums the session's log rows
\*                                         (line 238; db.py lines 83-99)
StopSelect(h) ==
    /\ hpc[h] = "t_select"
    /\ hsid' = [hsid EXCEPT ![h] = current_session_id]
    /\ htotal' = [htotal EXCEPT ![h] = SumLogs(logs, current_session_id, 1)]
    /\ closes' = Append(closes, [by |-> h, session_id |-> current_session_id])
    /\ hpc' = [hpc EXCEPT ![h] = "t_update"]
    /\ UNCHANGED <<hresp, nstarts, nstops>>
    /\ UNCHANGED <<globalVars, queueVars, dbVars, capVars, genVars, subVars,
                   capHist, genHist>>

\* end_session's UPDATE, a statement of its own          (db.py lines 102-112)
StopUpdate(h) ==
    /\ hpc[h] = "t_update"
    /\ clock' = clock + 1
    /\ sessions' = end_session_update(hsid[h], clock', htotal[h])
    /\ hpc' = [hpc EXCEPT ![h] = "t_none"]
    /\ UNCHANGED <<logs, hsid, htotal, hresp, nstarts, nstops>>
    /\ UNCHANGED <<globalVars, queueVars, capVars, genVars, subVars,
                   capHist, genHist, reqHist>>

\* A /stop that leaves current_session_id as it is.
StopKeepsSession(h) ==
    /\ hpc[h] = "t_none"
    /\ hpc' = [hpc EXCEPT ![h] = "t_reset"]
    /\ UNCHANGED <<hsid, htotal, hresp, nstarts, nstops>>
    /\ UNCHANGED <<globalVars, queueVars, dbVars, capVars, genVars, subVars,
                   capHist, genHist, reqHist>>

\* current_session_id = None                                      (line 239)
StopClearSession(h) ==
    /\ hpc[h] = "t_none"
    /\ current_session_id' = None
    /\ hpc' = [hpc EXCEPT ![h] = "t_reset"]
    /\ UNCHANGED <<capturing, current_detections>>
    /\ UNCHANGED <<hsid, htotal, hresp, nstarts, nstops>>
    /\ UNCHANGED <<queueVars, dbVars, capVars, genVars, subVars,
                   capHist, genHist, reqHist>>

\* current_detections = {"fire": 0, "smoke": 0, ...}; return "OK"
\*                                                           (lines 242-247)
StopReset(h) ==
    /\ hpc[h] = "t_reset"
    /\ current_detections' = Snapshot(0, 0)
    /\ hresp' = [hresp EXCEPT ![h] = [op |-> "stop", made |-> None,
                                      session_id |-> None]]
    /\ hsid' = [hsid EXCEPT ![h] = None]
    /\ htotal' = [htotal EXCEPT ![h] = Snapshot(0, 0)]
    /\ hpc' = [hpc EXCEPT ![h] = "idle"]
    /\ UNCHANGED <<capturing, current_session_id>>
    /\ UNCHANGED <<nstarts, nstops>>
    /\ UNCHANGED <<queueVars, dbVars, capVars, genVars, subVars,
                   capHist, genHist, reqHist>>

\* ------------------------------------------- /detections: event_stream()
\* while True: if not capturing: time.sleep(0.5); continue: with capturing
\* off the pass ends after the sleep and nothing is yielded   (lines 187-190)
SubTop ==
    /\ epc = "top"
    /\ epc' = IF capturing THEN "get" ELSE "top"
    /\ equiet' = IF capturing THEN equiet ELSE TRUE
    /\ UNCHANGED <<globalVars, queueVars, dbVars, capVars, genVars, reqVars,
                   capHist, genHist, reqHist>>

\* detection = detection_queue.get(timeout=1); yield the event, or on
\* queue.Empty yield the heartbeat                           (lines 191-198)
SubGet ==
    /\ epc = "get"
    /\ IF Empty(detection_queue)
       THEN UNCHANGED detection_queue
       ELSE detection_queue' = Tail(detection_queue)
    /\ epc' = "top"
    /\ equiet' = FALSE
    /\ UNCHANGED frame_queue
    /\ UNCHANGED <<globalVars, dbVars, capVars, genVars, reqVars,
                   capHist, genHist, reqHist>>


\* ----------------------------------------------------------- the program
\* What the detector is given to see, as the box classes of one frame.
\* A quiet scene has no box; FireScenes has a quiet frame and a fire,
\* SmokeScenes a quiet frame and a smoke.
Quiet == {<<>>}
FireScenes == {<<>>, <<ClsFire>>}
SmokeScenes == {<<>>, <<ClsSmoke>>}

\* The capture thread with a camera that always delivers, maxFrames frames.
CaptureGood(maxFrames) ==
    \/ CapOuter \/ CapIdle \/ CapOpen \/ CapLoop \/ CapReadOk(maxFrames)
    \/ CapFull \/ CapEvict \/ CapPut \/ CapRelease

\* The capture thread with every outcome of cap.read().
Capture(maxFrames) ==
    \/ CaptureGood(maxFrames) \/ CapReadFail \/ CapReadRaise \/ CapExcept

\* A consumer in front of a scene that never changes: the comparison of
\* line 144 is false every time, the frame is encoded and sent.
GenerateQuiet(g) ==
    \/ GenTop(g) \/ GenGet(g, Quiet) \/ GenDetectRaise(g) \/ GenExcept(g)
    \/ GenGetTimeout(g) \/ GenCmpFire(g) \/ GenCmpSmoke(g) \/ GenYield(g)

Generate(g, outputs) ==
    \/ GenTop(g) \/ GenGet(g, outputs) \/ GenDetectRaise(g)
    \/ GenGetTimeout(g) \/ GenCmpFire(g) \/ GenCmpSmoke(g) \/ GenUpdate(g)
    \/ GenCheckSid(g) \/ GenLog(g) \/ GenLogRaise(g) \/ GenCheckFull(g)
    \/ GenPut(g) \/ GenYield(g) \/ GenExcept(g)

Start(h) ==
    \/ StartBegin(h) \/ StartSession(h) \/ StartAssign(h) \/ StartReset(h)
    \/ StartClear(h) \/ StartReturn(h)

Stop(h) ==
    \/ StopBegin(h) \/ StopCheck(h) \/ StopSelect(h) \/ StopUpdate(h)
    \/ StopClearSession(h) \/ StopReset(h)

Subscriber == SubTop \/ SubGet

\* The whole program.
Next ==
    \/ Capture(MaxFrames)
    \/ \E g \in Consumers : Generate(g, BoxSeqs(MaxBoxes))
    \/ \E h \in Handlers : Start(h) \/ Stop(h)
    \/ Subscriber

Spec == Init /\ [][Next]_vars


\* The frame buffer: the capture thread with a camera that delivers, two
\* /video consumers taking frames off frame_queue, /start and /stop
\* requests one at a time switching capturing on and off.
NextCapture ==
    \/ CaptureGood(MaxFrames)
    \/ \E g \in Consumers : GenerateQuiet(g)
    \/ Start("h1") \/ Stop("h1")

SpecCapture == Init /\ [][NextCapture]_vars

\* The connection: the capture thread with every outcome of a read, one
\* /video consumer, /start and /stop requests one at a time.
NextReconnect ==
    \/ Capture(MaxFrames)
    \/ GenerateQuiet("g1")
    \/ Start("h1") \/ Stop("h1")

SpecReconnect == Init /\ [][NextReconnect]_vars


\* The sessions: /start and /stop requests one at a time, one /video
\* consumer in front of a fire that comes and goes, the capture thread with
\* a camera that delivers.
NextSession ==
    \/ CaptureGood(MaxFrames)
    \/ Generate("g1", FireScenes)
    \/ Start("h1") \/ Stop("h1")

SpecSession == Init /\ [][NextSession]_vars

\* The state one /start request leaves behind when it is served alone:
\* capturing is on, session 1 is 'active' and current, the response carried
\* its id; no consumer has taken a step and the capture thread stands at
\* `at` with the stream in state `stream`.
StartedWith(at, stream) ==
    /\ capturing = TRUE
    /\ current_session_id = 1
    /\ current_detections = Snapshot(0, 0)
    /\ frame_queue = <<>>
    /\ detection_queue = <<>>
    /\ sessions = <<[start_time |-> 1, end_time |-> 0,
                     total_fire_detections |-> 0,
                     total_smoke_detections |-> 0, status |-> "active"]>>
    /\ logs = <<>>
    /\ clock = 1
    /\ cpc = at
    /\ cap = stream
    /\ consecutive_failures = 0
    /\ cframe = 0
    /\ frames_read = 0
    /\ gpc = [g \in Consumers |-> "top"]
    /\ gframe = [g \in Consumers |-> 0]
    /\ fire_count = [g \in Consumers |-> 0]
    /\ smoke_count = [g \in Consumers |-> 0]
    /\ hpc = [h \in Handlers |-> "idle"]
    /\ hsid = [h \in Handlers |-> None]
    /\ htotal = [h \in Handlers |-> Snapshot(0, 0)]
    /\ hresp = [h \in Handlers |->
                  IF h = "h1"
                  THEN [op |-> "start", made |-> 1, session_id |-> 1]
                  ELSE [op |-> "none", made |-> None, session_id |-> None]]
    /\ nstarts = 1
    /\ nstops = 0
    /\ last_removed = 0
    /\ puts_since_get = 0
    /\ fail_run = 0
    /\ broke = FALSE
    /\ gboxes = [g \in Consumers |-> <<>>]
    /\ gprev = [g \in Consumers |-> Snapshot(0, 0)]
    /\ gsawfull = [g \in Consumers |-> FALSE]
    /\ gputs = [g \in Consumers |-> 0]
    /\ glogged = [g \in Consumers |-> 0]
    /\ logged_into = <<>>
    /\ closes = <<>>
    /\ epc = "top"
    /\ equiet = FALSE

\* ... before any other thread has taken a step.
InitStarted == StartedWith("outer", "none")

\* ... when the capture thread has seen capturing on and opened the stream.
InitStreaming == StartedWith("inner", "open")

\* The capture thread in its read loop, with a camera that delivers.
CaptureReading(maxFrames) ==
    \/ CapLoop \/ CapReadOk(maxFrames) \/ CapFull \/ CapEvict \/ CapPut

\* The capture thread while capturing stays on, with a camera that delivers.
CaptureRunning(maxFrames) ==
    \/ CapOuter \/ CapOpen \/ CaptureReading(maxFrames)

\* The detector: after /start, one /video consumer in front of a detector
\* that returns any boxes, of any class, and the capture thread with a
\* camera that delivers.
NextDetect ==
    \/ CaptureRunning(MaxFrames)
    \/ Generate("g1", BoxSeqs(MaxBoxes))

SpecDetect == InitStarted /\ [][NextDetect]_vars

\* The events of a scene where a fire comes and goes, frame after frame:
\* every frame changes the counts, every change is logged and queued.
PriorEvents == [i \in 1..(DetectionQueueMax - 1) |-> Snapshot(i % 2, 0)]

\* The state the program is in when, after one /start served alone, one
\* /video consumer has processed DetectionQueueMax - 1 frames of such a
\* scene one by one and no /detections subscriber has taken an event:
\* detection_queue is one event short of full, session 1 has a log row per
\* event, the capture thread is back at the top of its read loop.
InitEvents ==
    /\ capturing = TRUE
    /\ current_session_id = 1
    /\ current_detections = PriorEvents[Len(PriorEvents)]
    /\ frame_queue = <<>>
    /\ detection_queue = PriorEvents
    /\ sessions = <<[start_time |-> 1, end_time |-> 0,
                     total_fire_detections |-> 0,
                     total_smoke_detections |-> 0, status |-> "active"]>>
    /\ logs = [i \in 1..Len(PriorEvents) |->
                 [session_id |-> 1, fire_count |-> PriorEvents[i].fire,
                  smoke_count |-> PriorEvents[i].smoke,
                  alert_triggered |-> AlertTriggered(PriorEvents[i].fire,
                                                     PriorEvents[i].smoke)]]
    /\ clock = 1
    /\ cpc = "inner"
    /\ cap = "open"
    /\ consecutive_failures = 0
    /\ cframe = Len(PriorEvents)
    /\ frames_read = Len(PriorEvents)
    /\ gpc = [g \in Consumers |-> "top"]
    /\ gframe = [g \in Consumers |-> 0]
    /\ fire_count = [g \in Consumers |-> 0]
    /\ smoke_count = [g \in Consumers |-> 0]
    /\ hpc = [h \in Handlers |-> "idle"]
    /\ hsid = [h \in Handlers |-> None]
    /\ htotal = [h \in Handlers |-> Snapshot(0, 0)]
    /\ hresp = [h \in Handlers |->
                  IF h = "h1"
                  THEN [op |-> "start", made |-> 1, session_id |-> 1]
                  ELSE [op |-> "none", made |-> None, session_id |-> None]]
    /\ nstarts = 1
    /\ nstops = 0
    /\ last_removed = Len(PriorEvents)
    /\ puts_since_get = 0
    /\ fail_run = 0
    /\ broke = FALSE
    /\ gboxes = [g \in Consumers |-> <<>>]
    /\ gprev = [g \in Consumers |-> Snapshot(0, 0)]
    /\ gsawfull = [g \in Consumers |-> FALSE]
    /\ gputs = [g \in Consumers |-> 0]
    /\ glogged = [g \in Consumers |-> 0]
    /\ logged_into = [i \in 1..Len(PriorEvents) |->
                        [status |-> "active",
                         boxes |-> IF PriorEvents[i].fire = 1
                                   THEN <<ClsFire>> ELSE <<>>]]
    /\ closes = <<>>
    /\ epc = "top"
    /\ equiet = FALSE

\* The events: from there, two /video consumers in front of a changing
\* scene, a /detections subscriber, and the capture thread with a camera
\* that delivers MaxFrames more frames.
NextEvents ==
    \/ CaptureReading(Len(PriorEvents) + MaxFrames)
    \/ \E g \in Consumers : Generate(g, SmokeScenes)
    \/ Subscriber

SpecEvents == InitEvents /\ [][NextEvents]_vars

\* The stream: capturing stays on, the stream is open and every read gives
\* a frame, one /video consumer runs in front of a quiet scene with a
\* detector that works. Both threads are scheduled fairly.
CaptureStreaming ==
    \/ CapLoop \/ CapReadOn(MaxFrames) \/ CapFull \/ CapEvict \/ CapPut

GenerateStreaming(g) ==
    \/ GenTop(g) \/ GenGet(g, Quiet) \/ GenGetTimeout(g)
    \/ GenCmpFire(g) \/ GenCmpSmoke(g) \/ GenYield(g)

NextStream == CaptureStreaming \/ GenerateStreaming("g1")

SpecStream ==
    /\ InitStreaming
    /\ [][NextStream]_vars
    /\ WF_vars(CaptureStreaming)
    /\ WF_vars(GenerateStreaming("g1"))

\* The subscriber: a /detections subscriber while two handler threads
\* serve /start and /stop requests.
NextSubscribe ==
    \/ Subscriber
    \/ \E h \in Handlers : Start(h) \/ Stop(h)

SpecSubscribe == Init /\ [][NextSubscribe]_vars

\* The requests alone: two handler threads serving /start and /stop
\* requests at once. No other thread writes capturing, current_session_id
\* or detection_sessions.
NextRequests == \E h \in Handlers : Start(h) \/ Stop(h)

SpecRequests == Init /\ [][NextRequests]_vars

\* ------------------------------------------------------------ the claims
\* The frames in frame_queue, oldest first.
Frames == {frame_queue[i] : i \in 1..Len(frame_queue)}

\* The newest frame frame_queue.put has inserted: frames are numbered as
\* they are read, and a frame read is the next one put.
LastPut == IF cpc \in {"full", "evict", "put"} THEN cframe - 1 ELSE cframe

\* C1: frame_queue is a drop-oldest buffer. The frames still in it are in
\* insertion order, each is newer than every frame that has left it (by
\* eviction or by a consumer's get), and once more than FrameQueueMax
\* frames were inserted with no get between them, it holds exactly the
\* last FrameQueueMax of them whenever the capture thread is not between
\* its eviction and its put.
C1_DropOldest ==
    /\ \A i, j \in 1..Len(frame_queue) :
          i < j => frame_queue[i] < frame_queue[j]
    /\ \A f \in Frames : f > last_removed
    /\ (puts_since_get > FrameQueueMax /\ cpc # "put")
          => frame_queue = [i \in 1..FrameQueueMax |->
                               LastPut - FrameQueueMax + i]

\* C1's case: more frames than the queue holds were inserted with no get,
\* the oldest was evicted, the insertion is complete.
C1_Witness ==
    /\ puts_since_get > FrameQueueMax
    /\ cpc = "inner"
    /\ last_removed >= 1
    /\ Len(frame_queue) = FrameQueueMax

\* C9: consecutive_failures is the number of failed reads since the last
\* good read on this connection (a failed read adds one, a good read sets
\* it to 0); a failed read below the threshold goes on with the same open
\* connection; the loop is left by `break` only with more than
\* FailureThreshold failed reads in a row, none of them before a good read.
C9_FailureCounter ==
    /\ consecutive_failures = fail_run
    /\ cpc \in {"inner", "read"} => cap = "open"
    /\ broke => fail_run = FailureThreshold + 1
    /\ fail_run <= FailureThreshold + 1
    /\ (cpc = "release" /\ fail_run > FailureThreshold) => broke

\* C9's case: the connection is being torn down for too many failures,
\* after a good read on it.
C9_Witness ==
    /\ cpc = "release"
    /\ broke
    /\ frames_read >= 1
    /\ cap = "open"

\* C10: whenever capturing is off and the capture thread sleeps in its idle
\* branch, the connection it opened has been released.
C10_IdleReleased ==
    (cpc = "idle" /\ ~capturing) => cap # "open"


\* C3: every session closed by /stop has end_time >= start_time, status
\* 'completed', and totals equal to the sums of fire_count and smoke_count
\* over the log rows of that session.
C3_ClosedSessionTotals ==
    \A s \in 1..Len(sessions) :
        sessions[s].status = "completed" =>
            /\ sessions[s].end_time >= sessions[s].start_time
            /\ sessions[s].total_fire_detections = SumLogs(logs, s, 1).fire
            /\ sessions[s].total_smoke_detections = SumLogs(logs, s, 1).smoke

\* C4: every log row went into a session that existed and was 'active' when
\* the row was inserted.
C4_LogsIntoActiveSession ==
    \A i \in 1..Len(logged_into) : logged_into[i].status = "active"

\* C6: the response of /start carries the id of the session that request
\* created.
C6_StartReturnsItsSession ==
    \A h \in Handlers :
        hresp[h].op = "start" =>
            /\ hresp[h].made \in 1..Len(sessions)
            /\ hresp[h].session_id = hresp[h].made

\* The session ids end_session has been called with so far.
Closed == {closes[i].session_id : i \in 1..Len(closes)}

\* C8: a double close is a race. Whenever end_session is called for a
\* session it was already called for, another /stop that read the same id
\* is still in flight, between its own end_session and its
\* current_session_id = None: two /stop requests one after the other never
\* close a session twice.
C8_DoubleCloseIsARace ==
    [][\A h \in Handlers :
          (/\ hpc[h] = "t_select"
           /\ hpc'[h] = "t_update"
           /\ current_session_id # None
           /\ current_session_id \in Closed)
          => \E other \in Handlers \ {h} :
                /\ hpc[other] \in {"t_update", "t_none"}
                /\ hsid[other] = current_session_id]_vars

\* C8's case: two /stop requests have read the same session id and both are
\* inside end_session for it.
C8_Witness ==
    \E h1, h2 \in Handlers :
        /\ h1 # h2
        /\ hpc[h1] = "t_update"
        /\ hpc[h2] = "t_update"
        /\ hsid[h1] # None
        /\ hsid[h1] = hsid[h2]
        /\ Cardinality({i \in 1..Len(closes) :
                          closes[i].session_id = hsid[h1]}) = 2


\* The boxes of class cls among the detector's boxes for one frame.
BoxesOf(boxes, cls) == {k \in 1..Len(boxes) : boxes[k] = cls}

\* C5: the fire count of a frame is the number of its boxes of class 0 and
\* the smoke count the number of its boxes of class 3, whatever boxes of
\* class 1 and 2 come with them; a log row has alert_triggered exactly when
\* its frame had a box of class 0 or 3, so a frame with only light and
\* no-fire boxes gives counts (0, 0) and a row, if any, without an alert.
C5_CountsFireAndSmokeOnly ==
    /\ \A g \in Consumers :
          /\ fire_count[g] = Cardinality(BoxesOf(gboxes[g], ClsFire))
          /\ smoke_count[g] = Cardinality(BoxesOf(gboxes[g], ClsSmoke))
    /\ Len(logged_into) = Len(logs)
    /\ \A i \in 1..Len(logs) :
          /\ logs[i].fire_count = Cardinality(BoxesOf(logged_into[i].boxes, ClsFire))
          /\ logs[i].smoke_count = Cardinality(BoxesOf(logged_into[i].boxes, ClsSmoke))
          /\ logs[i].alert_triggered <=>
                (\E k \in 1..Len(logged_into[i].boxes) :
                    logged_into[i].boxes[k] \in {ClsFire, ClsSmoke})

\* C5's cases: a frame with one fire box and one light box has been logged
\* as (1, 0) with an alert, and after it a frame with only light and
\* no-fire boxes has been logged as (0, 0) without one.
C5_Witness ==
    \E i, j \in 1..Len(logs) :
        /\ i < j
        /\ logged_into[i].boxes = <<ClsFire, ClsLight>>
        /\ logs[i].fire_count = 1 /\ logs[i].smoke_count = 0
        /\ logs[i].alert_triggered
        /\ logged_into[j].boxes = <<ClsLight, ClsNoFire>>
        /\ logs[j].fire_count = 0 /\ logs[j].smoke_count = 0
        /\ ~logs[j].alert_triggered


\* The counts of g's frame differ from what its comparison of line 144 read
\* in current_detections.
Differs(g) ==
    \/ fire_count[g] # gprev[g].fire
    \/ smoke_count[g] # gprev[g].smoke

\* C2, as the code has it: a pass of generate puts at most one event, and
\* only for a frame whose counts differ from the snapshot it compared them
\* with; when the frame is emitted, the pass has put its event exactly when
\* the counts differed and detection_queue was not full at line 157.
C2_EventOnChangeUnlessFull ==
    \A g \in Consumers :
        /\ gputs[g] <= 1
        /\ gputs[g] = 1 => Differs(g)
        /\ gpc[g] = "encode" => (gputs[g] = 1 <=> (Differs(g) /\ ~gsawfull[g]))

\* C2's case: a frame whose counts changed is emitted without an event,
\* because detection_queue was full.
C2_Witness ==
    \E g \in Consumers :
        /\ gpc[g] = "encode"
        /\ Differs(g)
        /\ gsawfull[g]
        /\ gputs[g] = 0
        /\ current_detections = Snapshot(fire_count[g], smoke_count[g])

\* C2 as stated: when a frame is emitted, an event has been put for it if
\* and only if its counts differed from the previous snapshot.
C2_EventIffChange ==
    \A g \in Consumers :
        gpc[g] = "encode" => (gputs[g] = 1 <=> Differs(g))

\* C7: detection_queue never holds more than DetectionQueueMax events and no
\* generate loop stands at detection_queue.put with the queue full.
C7_PutNeverBlocks ==
    /\ Len(detection_queue) <= DetectionQueueMax
    /\ \A g \in Consumers :
          ~(gpc[g] = "put" /\ Full(detection_queue, DetectionQueueMax))


\* C11: every pass of the subscriber's loop sends an event or a heartbeat,
\* with capturing on or off: no wait of the loop ends with nothing sent.
C11_EveryWindowEmits == ~equiet


\* C12: a frame is yielded whether or not the log append for it succeeded:
\* no pass of generate that found a change in the counts of its frame gives
\* the frame up in the except handler.
C12_YieldedDespiteLogFailure ==
    \A g \in Consumers :
        ~(gpc[g] = "except" /\ gframe[g] # 0 /\ Differs(g))


\* C13: frame_queue never holds more than FrameQueueMax frames, and when
\* the capture thread stands at frame_queue.put the queue has a free slot,
\* whatever the consumers have done in between: the put never blocks.
C13_PutFindsFreeSlot ==
    /\ Len(frame_queue) <= FrameQueueMax
    /\ cpc = "put" => ~Full(frame_queue, FrameQueueMax)

\* C13's case: the queue was full, the oldest frame has been evicted and
\* the capture thread stands at the put with one slot free.
C13_Witness ==
    /\ cpc = "put"
    /\ puts_since_get = FrameQueueMax
    /\ Len(frame_queue) = FrameQueueMax - 1
    /\ last_removed = Head(frame_queue) - 1


\* Consumer g takes a step in the transition.
Steps(g) == gpc'[g] # gpc[g]

\* C14: a pass of generate writes a log row exactly when the counts of its
\* frame differ from the previous snapshot and current_session_id is set at
\* line 152: a pass without a change writes none; a pass with a change and
\* no session goes on to the event without touching detection_logs; every
\* row is written by a pass with a change that had seen a session, one row
\* per pass, carrying the counts of its frame and alert_triggered =
\* (fire_count > 0 or smoke_count > 0).
C14_RowOnChangeInSession ==
    /\ [](\A g \in Consumers :
            /\ glogged[g] <= 1
            /\ ~Differs(g) => glogged[g] = 0)
    /\ [][/\ \A g \in Consumers :
               (gpc[g] = "check_sid" /\ Steps(g)) =>
                   /\ Differs(g)
                   /\ logs' = logs
                   /\ gpc'[g] = IF current_session_id # None
                                THEN "log" ELSE "check_full"
          /\ logs' # logs =>
               \E g \in Consumers :
                   /\ gpc[g] = "log" /\ gpc'[g] = "check_full"
                   /\ Differs(g)
                   /\ glogged[g] = 0 /\ glogged'[g] = 1
                   /\ Len(logs') = Len(logs) + 1
                   /\ SubSeq(logs', 1, Len(logs)) = logs
                   /\ logs'[Len(logs')].fire_count = fire_count[g]
                   /\ logs'[Len(logs')].smoke_count = smoke_count[g]
                   /\ logs'[Len(logs')].alert_triggered
                         = (fire_count[g] > 0 \/ smoke_count[g] > 0)]_vars

\* C14's cases: a change seen while a session was active has its row, with
\* the alert, and a pass that found a change while no session is active has
\* updated the snapshot and goes on to the event with no row written.
C14_Witness ==
    \E g \in Consumers :
        /\ gpc[g] = "check_full"
        /\ Differs(g)
        /\ glogged[g] = 0
        /\ current_session_id = None
        /\ current_detections = Snapshot(fire_count[g], smoke_count[g])
        /\ Len(logs) = 1
        /\ logs[1].fire_count = 1 /\ logs[1].alert_triggered


\* C15: with capturing on, the stream open, reads that succeed and both
\* threads scheduled fairly, the /video consumer yields a frame again and
\* again, for ever: a get that times out is retried, and neither thread
\* waits for ever on frame_queue.
C15_YieldsForever == []<><<GenYield("g1")>>_vars

\* C15's case: the camera has delivered more frames than it has names for,
\* the consumer has taken them as they came and is about to yield the first
\* frame of the second round while the producer stands at the put.
C15_Witness ==
    /\ frames_read = MaxFrames
    /\ last_removed = MaxFrames
    /\ gpc["g1"] = "encode"
    /\ gframe["g1"] = 1
    /\ cpc = "put"


\* C16: whenever no /start or /stop request is being served, capturing is
\* true exactly when current_session_id holds the id of a session whose
\* status is 'active'.
C16_FlagAgreesWithSession ==
    (\A h \in Handlers : hpc[h] = "idle") =>
        (capturing <=> (/\ current_session_id # None
                        /\ StatusOf(current_session_id) = "active"))


\* C17: once /stop has returned, with no request being served and no pass
\* of generate in flight, the snapshot /detection_status serves has
\* fire = 0 and smoke = 0, until the next /start.
C17_SnapshotZeroAfterStop ==
    (/\ nstops >= 1
     /\ ~capturing
     /\ \A h \in Handlers : hpc[h] = "idle"
     /\ \A g \in Consumers : gpc[g] = "top")
    => current_detections = Snapshot(0, 0)

====
